---------------------------- MODULE Spec2Model ----------------------------
(***************************************************************************)
(* A model of the sorted set of src/zset.go: a skiplist whose links carry  *)
(* spans, paired with a member -> score map.                               *)
(*                                                                         *)
(* Pointers are indices into `heap`; Nil is the nil pointer.  A node's     *)
(* `level` slice is a function over 0..len-1, as in Go.  Members are Go    *)
(* strings, written as sequences of byte values so that `<` on strings is  *)
(* computed bytewise.  Scores are float64 values; the ones drawn here are  *)
(* small integers, compared through FloatLess / FloatEq.                   *)
(***************************************************************************)
EXTENDS Integers, Sequences, FiniteSets, TLC

VARIABLES
    heap,       \* the nodes, by address
    zsl,        \* the skiplist: header, tail, length, level
    dict,       \* ZSet.dict
    op,         \* the call the caller made last, with its arguments
    ret,        \* what that call returned
    panicked,   \* a call ended in a runtime panic
    before      \* the set as it was when that call was made

vars == <<heap, zsl, dict, op, ret, panicked, before>>

---------------------------------------------------------------------------
(* Bounds of the model *)

\* randomLevel's coin comes up below SKIPLIST_P at most this many times in a row
MaxFlips == 1

---------------------------------------------------------------------------
(* Constants of the program *)

SKIPLIST_MAXLEVEL == 32

\* uint64 arithmetic wraps.  TLC's integers are 32 bits wide, so the word is
\* modelled 30 bits wide; every length, span and rank of the model is far
\* below 2^29, so a wrap happens in the model exactly when it happens in Go.
UintMod == 2^30

U64(v) == v % UintMod

\* int64(u) for a uint64 u: two's complement reinterpretation
ToInt64(u) == IF u >= UintMod \div 2 THEN u - UintMod ELSE u

\* uint64(v) for an int64 v
ToUint64(v) == v % UintMod

Nil == 0

\* the address of the header node, allocated once by createSkiplist
HeaderAddr == 1

\* the float64 that is not a number, as math.NaN() gives it; the scores that
\* are numbers are the integers from 0 up
NaN == -1

---------------------------------------------------------------------------
(* Inputs *)

\* "a", "", "aa": a string, the empty string (the header's ele) and a string
\* with a proper prefix in the set
Members == { <<97>>, <<>>, <<97, 97>> }

\* the scores the callers pass
Scores == { 0, 1, 2 }

\* the scores of a caller that passes NaN as well, and the members it names
NaNScores == { NaN, 1 }

NaNMembers == { <<97>>, <<>> }

\* the scores stored in the sets the loops are stepped through: two, so that
\* members tie; the searches look for every score of Scores
LoopScores == { 0, 1 }

\* the ranks asked for: below 0, inside and beyond any length
Ranks == (-1)..(Cardinality(Members) + 1)

\* offsets: negative, none, one, and more than there are members
Offsets == { -1, 0, 1, Cardinality(Members) + 1 }

\* counts: unbounded, none, one, two
Counts == { -1, 0, 1, 2 }

\* addresses createNode can return for member nodes: one more than members
NodeAddrs == 2..(Cardinality(Members) + 2)

---------------------------------------------------------------------------
(* Comparisons *)

\* Go's a < b on float64: false when either side is NaN
FloatLess(a, b) == a # NaN /\ b # NaN /\ a < b

\* Go's a == b on float64: false when either side is NaN
FloatEq(a, b) == a # NaN /\ b # NaN /\ a = b

\* Go's s < t on strings: bytewise, a proper prefix is smaller
RECURSIVE StrLess(_, _)
StrLess(s, t) ==
    IF t = <<>> THEN FALSE
    ELSE IF s = <<>> THEN TRUE
    ELSE IF Head(s) # Head(t) THEN Head(s) < Head(t)
    ELSE StrLess(Tail(s), Tail(t))

StrLeq(s, t) == s = t \/ StrLess(s, t)

---------------------------------------------------------------------------
(* Construction *)

\* createNode with one level more than asked for
createNodeTaller(level, score, ele) ==
    [ ele      |-> ele,
      score    |-> score,
      backward |-> Nil,
      level    |-> [j \in 0..level |-> [forward |-> Nil, span |-> 0]] ]

createNode(level, score, ele) ==
    [ ele      |-> ele,
      score    |-> score,
      backward |-> Nil,
      level    |-> [j \in 0..(level - 1) |-> [forward |-> Nil, span |-> 0]] ]

createSkiplist ==
    [ sl   |-> [header |-> HeaderAddr, tail |-> Nil, length |-> 0, level |-> 1],
      heap |-> (HeaderAddr :> createNode(SKIPLIST_MAXLEVEL, 0, <<>>)) ]

NewZSet ==
    [ dict |-> << >>,
      zsl  |-> createSkiplist.sl,
      heap |-> createSkiplist.heap ]

\* level := 1; for rand.Float64() < SKIPLIST_P && level < SKIPLIST_MAXLEVEL { level++ }
\* `flips` is the number of consecutive draws below SKIPLIST_P
RECURSIVE randomLevelLoop(_, _)
randomLevelLoop(level, flips) ==
    IF flips > 0 /\ level < SKIPLIST_MAXLEVEL
    THEN randomLevelLoop(level + 1, flips - 1)
    ELSE level

randomLevel(flips) == randomLevelLoop(1, flips)

---------------------------------------------------------------------------
(* Memory *)

HasLevel(h, x, i) == x \in DOMAIN h /\ i \in DOMAIN h[x].level

\* the addresses a node points to
Pointees(h, x) ==
    ({ h[x].level[i].forward : i \in DOMAIN h[x].level } \cup { h[x].backward })
        \ { Nil }

RECURSIVE Reachable(_, _)
Reachable(h, S) ==
    LET N == S \cup UNION { Pointees(h, x) : x \in S }
    IN  IF N = S THEN S ELSE Reachable(h, N)

\* what the garbage collector keeps: the nodes reachable from the skiplist
collect(h, sl) ==
    LET live == Reachable(h, ({sl.header, sl.tail} \ {Nil}))
    IN  [x \in live |-> h[x]]

\* the address of the next allocation (Nil when the arena is exhausted).  Go
\* promises nothing about the address but that it is not in use; the allocator
\* modelled here tries a slot of its own for each member first and takes the
\* lowest free address otherwise.
newAddr(h, ele) ==
    LET free == NodeAddrs \ DOMAIN h
        slot == 2 + Cardinality({ m \in Members : StrLess(m, ele) })
    IN  IF free = {} THEN Nil
        ELSE IF slot \in free THEN slot
        ELSE CHOOSE a \in free : \A b \in free : a <= b

---------------------------------------------------------------------------
(* skiplist.insert *)

\* KeyBefore without the comparison of the members
KeyBeforeByScoreOnly(h, f, score, ele) == FloatLess(h[f].score, score)

\* x.level[i].forward's key is strictly below (score, ele)
KeyBefore(h, f, score, ele) ==
    \/ FloatLess(h[f].score, score)
    \/ FloatEq(h[f].score, score) /\ StrLess(h[f].ele, ele)

\* the inner loop of insert at level i, starting at x with rank r
RECURSIVE insertWalk(_, _, _, _, _, _)
insertWalk(h, x, i, score, ele, r) ==
    IF ~HasLevel(h, x, i) THEN [x |-> x, rank |-> r, panic |-> TRUE]
    ELSE LET f == h[x].level[i].forward
         IN  IF f # Nil /\ KeyBefore(h, f, score, ele)
             THEN insertWalk(h, f, i, score, ele, U64(r + h[x].level[i].span))
             ELSE [x |-> x, rank |-> r, panic |-> FALSE]

\* the outer loop of insert: for i := sl.level - 1; i >= 0; i--
RECURSIVE insertDescend(_, _, _, _, _, _, _, _)
insertDescend(h, sl, score, ele, i, x, update, rank) ==
    IF i < 0 THEN [update |-> update, rank |-> rank, panic |-> FALSE]
    ELSE LET r0 == IF i = sl.level - 1 THEN 0 ELSE rank[i + 1]
             w  == insertWalk(h, x, i, score, ele, r0)
         IN  IF w.panic THEN [update |-> update, rank |-> rank, panic |-> TRUE]
             ELSE insertDescend(h, sl, score, ele, i - 1, w.x,
                                [update EXCEPT ![i] = w.x],
                                [rank EXCEPT ![i] = w.rank])

\* for i := sl.level; i < level; i++ { update[i].level[i].span = sl.length }
raiseHeader(h, sl, level) ==
    [h EXCEPT ![sl.header].level =
        [i \in DOMAIN h[sl.header].level |->
            IF i >= sl.level /\ i < level
            THEN [h[sl.header].level[i] EXCEPT !.span = sl.length]
            ELSE h[sl.header].level[i]]]

\* for i := 0; i < level; i++: link x in at level i and split the span
RECURSIVE insertSplice(_, _, _, _, _, _)
insertSplice(h, x, i, level, update, rank) ==
    IF i >= level THEN [heap |-> h, panic |-> FALSE]
    ELSE IF ~HasLevel(h, update[i], i) THEN [heap |-> h, panic |-> TRUE]
    ELSE LET u    == update[i]
             skip == U64(rank[0] - rank[i])
             h1   == [h EXCEPT ![x].level[i].forward = h[u].level[i].forward]
             h2   == [h1 EXCEPT ![u].level[i].forward = x]
             h3   == [h2 EXCEPT ![x].level[i].span = U64(h2[u].level[i].span - skip)]
             h4   == [h3 EXCEPT ![u].level[i].span = U64(skip + 1)]
         IN  insertSplice(h4, x, i + 1, level, update, rank)

\* insertBump without the span++
insertBumpNothing(h, i, top, update) == [heap |-> h, panic |-> FALSE]

\* for i := level; i < sl.level; i++ { update[i].level[i].span++ }
RECURSIVE insertBump(_, _, _, _)
insertBump(h, i, top, update) ==
    IF i >= top THEN [heap |-> h, panic |-> FALSE]
    ELSE IF ~HasLevel(h, update[i], i) THEN [heap |-> h, panic |-> TRUE]
    ELSE insertBump([h EXCEPT ![update[i]].level[i].span = U64(@ + 1)],
                    i + 1, top, update)

Max2(a, b) == IF a > b THEN a ELSE b

\* raiseUpdate without update[i] = sl.header
raiseUpdateNothing(sl, level, update) == update

\* update[] and rank[] after: if level > sl.level { for i := sl.level; i < level; i++ {...} }
raiseUpdate(sl, level, update) ==
    [i \in DOMAIN update |-> IF i >= sl.level /\ i < level THEN sl.header ELSE update[i]]

raiseRank(sl, level, rank) ==
    [i \in DOMAIN rank |-> IF i >= sl.level /\ i < level THEN 0 ELSE rank[i]]

insertPanic(h, sl) == [heap |-> h, sl |-> sl, node |-> Nil, panic |-> TRUE]

\* insertFinish without sl.length++
insertFinishKeepsLength(h, sl, top, x, update0) ==
    LET nxt == h[x].level[0].forward
        bw  == IF update0 = sl.header THEN Nil ELSE update0
    IN  [ heap  |-> IF nxt # Nil
                    THEN [h EXCEPT ![x].backward = bw, ![nxt].backward = x]
                    ELSE [h EXCEPT ![x].backward = bw],
          sl    |-> [sl EXCEPT !.level = top,
                               !.tail = IF nxt # Nil THEN sl.tail ELSE x],
          node  |-> x,
          panic |-> FALSE ]

\* insertFinish without x.level[0].forward.backward = x
insertFinishNoRetarget(h, sl, top, x, update0) ==
    LET nxt == h[x].level[0].forward
        bw  == IF update0 = sl.header THEN Nil ELSE update0
    IN  [ heap  |-> [h EXCEPT ![x].backward = bw],
          sl    |-> [sl EXCEPT !.level = top,
                               !.tail = IF nxt # Nil THEN sl.tail ELSE x,
                               !.length = U64(sl.length + 1)],
          node  |-> x,
          panic |-> FALSE ]

\* the backward pointers, the tail and the length; update0 is update[0]
insertFinish(h, sl, top, x, update0) ==
    LET nxt == h[x].level[0].forward
        bw  == IF update0 = sl.header THEN Nil ELSE update0
    IN  [ heap  |-> IF nxt # Nil
                    THEN [h EXCEPT ![x].backward = bw, ![nxt].backward = x]
                    ELSE [h EXCEPT ![x].backward = bw],
          sl    |-> [sl EXCEPT !.level = top,
                               !.tail = IF nxt # Nil THEN sl.tail ELSE x,
                               !.length = U64(sl.length + 1)],
          node  |-> x,
          panic |-> FALSE ]

\* b is the outcome of the loop over the levels above the new node
insertBumped(h0, sl, top, x, update, b) ==
    IF b.panic THEN insertPanic(h0, sl)
    ELSE insertFinish(b.heap, sl, top, x, update[0])

\* s is the outcome of the loop that links the new node in
insertSpliced(h0, sl, level, top, x, update, s) ==
    IF s.panic THEN insertPanic(h0, sl)
    ELSE insertBumped(h0, sl, top, x, update, insertBump(s.heap, level, top, update))

\* d is the outcome of the search for the place
insertFound(h, sl, score, ele, level, addr, d) ==
    IF d.panic THEN insertPanic(h, sl)
    ELSE insertSpliced(h, sl, level, Max2(level, sl.level), addr,
                       raiseUpdate(sl, level, d.update),
                       insertSplice(raiseHeader(h, sl, level)
                                        @@ (addr :> createNode(level, score, ele)),
                                    addr, 0, level,
                                    raiseUpdate(sl, level, d.update),
                                    raiseRank(sl, level, d.rank)))

\* sl.insert(score, ele), the new node drawing `level` and allocated at `addr`
insert(h, sl, score, ele, level, addr) ==
    insertFound(h, sl, score, ele, level, addr,
                insertDescend(h, sl, score, ele, sl.level - 1, sl.header,
                              [i \in 0..(SKIPLIST_MAXLEVEL - 1) |-> Nil],
                              [i \in 0..(SKIPLIST_MAXLEVEL - 1) |-> 0]))

---------------------------------------------------------------------------
(* skiplist.delete and skiplist.deleteNode *)

\* the inner loop of delete at level i, starting at x
RECURSIVE deleteWalk(_, _, _, _, _)
deleteWalk(h, x, i, score, ele) ==
    IF ~HasLevel(h, x, i) THEN [x |-> x, panic |-> TRUE]
    ELSE LET f == h[x].level[i].forward
         IN  IF f # Nil /\ KeyBefore(h, f, score, ele)
             THEN deleteWalk(h, f, i, score, ele)
             ELSE [x |-> x, panic |-> FALSE]

\* the outer loop of delete: for i := sl.level - 1; i >= 0; i--
RECURSIVE deleteDescend(_, _, _, _, _, _, _)
deleteDescend(h, sl, score, ele, i, x, update) ==
    IF i < 0 THEN [update |-> update, x |-> x, panic |-> FALSE]
    ELSE LET w == deleteWalk(h, x, i, score, ele)
         IN  IF w.panic THEN [update |-> update, x |-> x, panic |-> TRUE]
             ELSE deleteDescend(h, sl, score, ele, i - 1, w.x,
                                [update EXCEPT ![i] = w.x])

\* for i := 0; i < sl.level; i++: unlink x at level i or shorten the link over it
RECURSIVE deleteUnlink(_, _, _, _, _)
deleteUnlink(h, x, i, top, update) ==
    IF i >= top THEN [heap |-> h, panic |-> FALSE]
    ELSE IF ~HasLevel(h, update[i], i) THEN [heap |-> h, panic |-> TRUE]
    ELSE LET u == update[i]
         IN  IF h[u].level[i].forward = x
             THEN IF ~HasLevel(h, x, i) THEN [heap |-> h, panic |-> TRUE]
                  ELSE deleteUnlink(
                         [h EXCEPT ![u].level[i] =
                            [forward |-> h[x].level[i].forward,
                             span    |-> U64(h[u].level[i].span
                                             + U64(h[x].level[i].span - 1))]],
                         x, i + 1, top, update)
             ELSE deleteUnlink([h EXCEPT ![u].level[i].span = U64(@ - 1)],
                               x, i + 1, top, update)

\* shrinkLevel without the sl.level--
shrinkLevelNever(h, header, level) == level

\* for sl.level > 1 && sl.header.level[sl.level-1].forward == nil { sl.level-- }
RECURSIVE shrinkLevel(_, _, _)
shrinkLevel(h, header, level) ==
    IF level > 1 /\ h[header].level[level - 1].forward = Nil
    THEN shrinkLevel(h, header, level - 1)
    ELSE level

\* deleteFinish without sl.length--
deleteFinishKeepsLength(h, sl, x) ==
    LET nxt == h[x].level[0].forward
        h2  == IF nxt # Nil THEN [h EXCEPT ![nxt].backward = h[x].backward] ELSE h
    IN  [ heap  |-> h2,
          sl    |-> [sl EXCEPT !.tail = IF nxt # Nil THEN sl.tail ELSE h[x].backward,
                               !.level = shrinkLevel(h2, sl.header, sl.level)],
          panic |-> FALSE ]

\* the backward pointers, the tail, the level and the length
deleteFinish(h, sl, x) ==
    LET nxt == h[x].level[0].forward
        h2  == IF nxt # Nil THEN [h EXCEPT ![nxt].backward = h[x].backward] ELSE h
    IN  [ heap  |-> h2,
          sl    |-> [sl EXCEPT !.tail = IF nxt # Nil THEN sl.tail ELSE h[x].backward,
                               !.level = shrinkLevel(h2, sl.header, sl.level),
                               !.length = U64(sl.length - 1)],
          panic |-> FALSE ]

\* u is the outcome of the loop over the levels
deleteUnlinked(h, sl, x, u) ==
    IF u.panic THEN [heap |-> h, sl |-> sl, panic |-> TRUE]
    ELSE deleteFinish(u.heap, sl, x)

deleteNode(h, sl, x, update) ==
    deleteUnlinked(h, sl, x, deleteUnlink(h, x, 0, sl.level, update))

\* r is what deleteNode left
deleteHit(r) == [heap |-> r.heap, sl |-> r.sl, found |-> TRUE, panic |-> r.panic]

\* x is update[0].level[0].forward: if x != nil && x.score == score && x.ele == ele
deleteMatch(h, sl, score, ele, update, x) ==
    IF x # Nil /\ FloatEq(h[x].score, score) /\ h[x].ele = ele
    THEN deleteHit(deleteNode(h, sl, x, update))
    ELSE [heap |-> h, sl |-> sl, found |-> FALSE, panic |-> FALSE]

\* d is the outcome of the search
deleteFound(h, sl, score, ele, d) ==
    IF d.panic THEN [heap |-> h, sl |-> sl, found |-> FALSE, panic |-> TRUE]
    ELSE deleteMatch(h, sl, score, ele, d.update, h[d.x].level[0].forward)

\* sl.delete(score, ele)
delete(h, sl, score, ele) ==
    deleteFound(h, sl, score, ele,
                deleteDescend(h, sl, score, ele, sl.level - 1, sl.header,
                              [i \in 0..(SKIPLIST_MAXLEVEL - 1) |-> Nil]))

---------------------------------------------------------------------------
(* The sorted set: z = [dict, zsl, heap] *)

\* mapDelete that deletes nothing
mapDeleteNothing(d, ele) == d

\* dict without the key ele: delete(z.dict, ele)
mapDelete(d, ele) == [k \in DOMAIN d \ {ele} |-> d[k]]

\* mapStore that leaves the entry of a key it already holds
mapStoreIfAbsent(d, ele, score) ==
    [k \in DOMAIN d \cup {ele} |-> IF k \in DOMAIN d THEN d[k] ELSE score]

\* z.dict[ele] = score
mapStore(d, ele, score) == [k \in DOMAIN d \cup {ele} |-> IF k = ele THEN score ELSE d[k]]

\* AddStore with `return true`
AddStoreReturnsTrue(z, ele, score, del, ins) ==
    IF ins.panic
    THEN [z |-> z, ret |-> FALSE, panic |-> TRUE, deleted |-> del.found, inserted |-> FALSE]
    ELSE [ z |-> [dict |-> mapStore(z.dict, ele, score),
                  zsl  |-> ins.sl,
                  heap |-> collect(ins.heap, ins.sl)],
           ret |-> TRUE, panic |-> FALSE,
           deleted |-> del.found, inserted |-> TRUE ]

\* ins is what insert left: z.dict[ele] = score; return !exists
AddStore(z, ele, score, del, ins) ==
    IF ins.panic
    THEN [z |-> z, ret |-> FALSE, panic |-> TRUE, deleted |-> del.found, inserted |-> FALSE]
    ELSE [ z |-> [dict |-> mapStore(z.dict, ele, score),
                  zsl  |-> ins.sl,
                  heap |-> collect(ins.heap, ins.sl)],
           ret |-> ~(ele \in DOMAIN z.dict), panic |-> FALSE,
           deleted |-> del.found, inserted |-> TRUE ]

\* del is what the delete of the old entry left (nothing deleted when absent)
AddInsert(z, ele, score, level, del) ==
    IF del.panic
    THEN [z |-> z, ret |-> FALSE, panic |-> TRUE, deleted |-> FALSE, inserted |-> FALSE]
    ELSE AddStore(z, ele, score, del,
                  insert(collect(del.heap, del.sl), del.sl, score, ele, level,
                         newAddr(collect(del.heap, del.sl), ele)))

\* AddDelete that deletes nothing
AddDeleteNothing(z, ele) ==
    [heap |-> z.heap, sl |-> z.zsl, found |-> FALSE, panic |-> FALSE]

\* if exists { z.zsl.delete(oldScore, ele) }
AddDelete(z, ele) ==
    IF ele \in DOMAIN z.dict THEN delete(z.heap, z.zsl, z.dict[ele], ele)
    ELSE [heap |-> z.heap, sl |-> z.zsl, found |-> FALSE, panic |-> FALSE]

\* Add without the return on an unchanged score
AddAlwaysReinserts(z, ele, score, level) ==
    AddInsert(z, ele, score, level, AddDelete(z, ele))

\* z.Add(ele, score), the new node drawing `level`
Add(z, ele, score, level) ==
    IF ele \in DOMAIN z.dict /\ FloatEq(z.dict[ele], score)
    THEN [z |-> z, ret |-> FALSE, panic |-> FALSE, deleted |-> FALSE, inserted |-> FALSE]
    ELSE AddInsert(z, ele, score, level, AddDelete(z, ele))

AddFitsAfter(ele, del) ==
    del.panic \/ newAddr(collect(del.heap, del.sl), ele) # Nil

\* the allocation of Add's node succeeds within the arena of the model
AddFits(z, ele, score) ==
    \/ ele \in DOMAIN z.dict /\ FloatEq(z.dict[ele], score)
    \/ AddFitsAfter(ele, AddDelete(z, ele))

\* del is what the delete left: delete(z.dict, ele); return true
RemoveStore(z, ele, del) ==
    IF del.panic THEN [z |-> z, ret |-> FALSE, panic |-> TRUE, deleted |-> FALSE]
    ELSE [ z |-> [dict |-> mapDelete(z.dict, ele),
                  zsl  |-> del.sl,
                  heap |-> collect(del.heap, del.sl)],
           ret |-> TRUE, panic |-> FALSE, deleted |-> del.found ]

\* Remove without the test of exists: the map's zero value is the score
RemoveUnchecked(z, ele) ==
    RemoveStore(z, ele,
                delete(z.heap, z.zsl,
                       IF ele \in DOMAIN z.dict THEN z.dict[ele] ELSE 0, ele))

\* z.Remove(ele)
Remove(z, ele) ==
    IF ~(ele \in DOMAIN z.dict)
    THEN [z |-> z, ret |-> FALSE, panic |-> FALSE, deleted |-> FALSE]
    ELSE RemoveStore(z, ele, delete(z.heap, z.zsl, z.dict[ele], ele))

\* z.Score(ele): the map's zero value when the key is missing
Score(z, ele) ==
    IF ele \in DOMAIN z.dict THEN <<z.dict[ele], TRUE>> ELSE <<0, FALSE>>

\* z.Len()
ZSetLen(z) == z.zsl.length

---------------------------------------------------------------------------
(* skiplist.getRank and ZSet.Rank *)

\* KeyAtMost with < in place of <= on the members
KeyAtMostStrict(h, f, score, ele) ==
    \/ FloatLess(h[f].score, score)
    \/ FloatEq(h[f].score, score) /\ StrLess(h[f].ele, ele)

\* forward's key is at most (score, ele)
KeyAtMost(h, f, score, ele) ==
    \/ FloatLess(h[f].score, score)
    \/ FloatEq(h[f].score, score) /\ StrLeq(h[f].ele, ele)

\* the inner loop of getRank at level i
RECURSIVE getRankWalk(_, _, _, _, _, _)
getRankWalk(h, x, i, score, ele, rank) ==
    IF ~HasLevel(h, x, i) THEN [x |-> x, rank |-> rank, panic |-> TRUE]
    ELSE LET f == h[x].level[i].forward
         IN  IF f # Nil /\ KeyAtMost(h, f, score, ele)
             THEN getRankWalk(h, f, i, score, ele, U64(rank + h[x].level[i].span))
             ELSE [x |-> x, rank |-> rank, panic |-> FALSE]

\* the node the descent stands on is the one looked for
getRankHit(h, sl, x, score, ele) ==
    x # sl.header /\ FloatEq(h[x].score, score) /\ h[x].ele = ele

\* the outer loop of getRank
RECURSIVE getRankDescend(_, _, _, _, _, _, _)
getRankDescend(h, sl, score, ele, i, x, rank) ==
    IF i < 0 THEN [rank |-> 0, panic |-> FALSE]
    ELSE LET w == getRankWalk(h, x, i, score, ele, rank)
         IN  IF w.panic THEN [rank |-> 0, panic |-> TRUE]
             ELSE IF getRankHit(h, sl, w.x, score, ele)
             THEN [rank |-> w.rank, panic |-> FALSE]
             ELSE getRankDescend(h, sl, score, ele, i - 1, w.x, w.rank)

getRank(h, sl, score, ele) ==
    getRankDescend(h, sl, score, ele, sl.level - 1, sl.header, 0)

\* Rank that reflects as length - rank
RankReflectsOffByOne(z, ele, reverse) ==
    LET exists == ele \in DOMAIN z.dict
        r      == getRank(z.heap, z.zsl, z.dict[ele], ele)
        rank   == U64(r.rank - 1)
    IN  IF ~exists THEN [ret |-> -1, panic |-> FALSE]
        ELSE IF r.panic THEN [ret |-> -1, panic |-> TRUE]
        ELSE IF r.rank = 0 THEN [ret |-> -1, panic |-> FALSE]
        ELSE IF reverse
        THEN [ret |-> ToInt64(U64(z.zsl.length - rank)), panic |-> FALSE]
        ELSE [ret |-> ToInt64(rank), panic |-> FALSE]

\* z.Rank(ele, reverse)
Rank(z, ele, reverse) ==
    LET exists == ele \in DOMAIN z.dict
        r      == getRank(z.heap, z.zsl, z.dict[ele], ele)
        rank   == U64(r.rank - 1)
    IN  IF ~exists THEN [ret |-> -1, panic |-> FALSE]
        ELSE IF r.panic THEN [ret |-> -1, panic |-> TRUE]
        ELSE IF r.rank = 0 THEN [ret |-> -1, panic |-> FALSE]
        ELSE IF reverse
        THEN [ret |-> ToInt64(U64(U64(z.zsl.length - rank) - 1)), panic |-> FALSE]
        ELSE [ret |-> ToInt64(rank), panic |-> FALSE]

---------------------------------------------------------------------------
(* skiplist.getElementByRank and ZSet.GetByRank *)

\* byRankWalk with < in place of <=
RECURSIVE byRankWalkStrict(_, _, _, _, _)
byRankWalkStrict(h, x, i, rank, traversed) ==
    IF ~HasLevel(h, x, i) THEN [x |-> x, traversed |-> traversed, panic |-> TRUE]
    ELSE LET l == h[x].level[i]
         IN  IF l.forward # Nil /\ U64(traversed + l.span) < rank
             THEN byRankWalkStrict(h, l.forward, i, rank, U64(traversed + l.span))
             ELSE [x |-> x, traversed |-> traversed, panic |-> FALSE]

\* the inner loop of getElementByRank at level i
RECURSIVE byRankWalk(_, _, _, _, _)
byRankWalk(h, x, i, rank, traversed) ==
    IF ~HasLevel(h, x, i) THEN [x |-> x, traversed |-> traversed, panic |-> TRUE]
    ELSE LET l == h[x].level[i]
         IN  IF l.forward # Nil /\ U64(traversed + l.span) <= rank
             THEN byRankWalk(h, l.forward, i, rank, U64(traversed + l.span))
             ELSE [x |-> x, traversed |-> traversed, panic |-> FALSE]

\* the outer loop of getElementByRank
RECURSIVE byRankDescend(_, _, _, _, _)
byRankDescend(h, i, x, rank, traversed) ==
    IF i < 0 THEN [node |-> Nil, panic |-> FALSE]
    ELSE LET w == byRankWalk(h, x, i, rank, traversed)
         IN  IF w.panic THEN [node |-> Nil, panic |-> TRUE]
             ELSE IF w.traversed = rank THEN [node |-> w.x, panic |-> FALSE]
             ELSE byRankDescend(h, i - 1, w.x, rank, w.traversed)

\* getElementByRank with >= in place of >
getElementByRankRejectsLast(h, sl, rank) ==
    IF rank = 0 \/ rank >= sl.length THEN [node |-> Nil, panic |-> FALSE]
    ELSE byRankDescend(h, sl.level - 1, sl.header, rank, 0)

getElementByRank(h, sl, rank) ==
    IF rank = 0 \/ rank > sl.length THEN [node |-> Nil, panic |-> FALSE]
    ELSE byRankDescend(h, sl.level - 1, sl.header, rank, 0)

\* GetByRank taking rank as 1-based: 0 <= rank <= length passes the test and
\* the rank goes to getElementByRank as it is
GetByRankOneBased(z, rank, reverse) ==
    LET len == ToInt64(z.zsl.length)
        rk  == IF reverse THEN len + 1 - rank ELSE rank
        n   == getElementByRank(z.heap, z.zsl, ToUint64(rk))
    IN  IF rank < 0 \/ rank > len THEN [ret |-> << <<>>, 0, FALSE >>, panic |-> FALSE]
        ELSE IF n.panic THEN [ret |-> << <<>>, 0, FALSE >>, panic |-> TRUE]
        ELSE IF n.node = Nil THEN [ret |-> << <<>>, 0, FALSE >>, panic |-> FALSE]
        ELSE [ret |-> <<z.heap[n.node].ele, z.heap[n.node].score, TRUE>>,
              panic |-> FALSE]

\* z.GetByRank(rank, reverse): <<member, score, exists>>
GetByRank(z, rank, reverse) ==
    LET len == ToInt64(z.zsl.length)
        rk  == IF reverse THEN len - 1 - rank ELSE rank
        n   == getElementByRank(z.heap, z.zsl, ToUint64(rk + 1))
    IN  IF rank < 0 \/ rank >= len THEN [ret |-> << <<>>, 0, FALSE >>, panic |-> FALSE]
        ELSE IF n.panic THEN [ret |-> << <<>>, 0, FALSE >>, panic |-> TRUE]
        ELSE IF n.node = Nil THEN [ret |-> << <<>>, 0, FALSE >>, panic |-> FALSE]
        ELSE [ret |-> <<z.heap[n.node].ele, z.heap[n.node].score, TRUE>>,
              panic |-> FALSE]

---------------------------------------------------------------------------
(* ZSet.RangeByScore *)

\* rangeWalk with <= in place of <
RECURSIVE rangeWalkPastMin(_, _, _, _)
rangeWalkPastMin(h, x, i, min) ==
    IF ~HasLevel(h, x, i) THEN [x |-> x, panic |-> TRUE]
    ELSE LET f == h[x].level[i].forward
         IN  IF f # Nil /\ ~FloatLess(min, h[f].score)
             THEN rangeWalkPastMin(h, f, i, min)
             ELSE [x |-> x, panic |-> FALSE]

\* the inner loop of the descent to min at level i
RECURSIVE rangeWalk(_, _, _, _)
rangeWalk(h, x, i, min) ==
    IF ~HasLevel(h, x, i) THEN [x |-> x, panic |-> TRUE]
    ELSE LET f == h[x].level[i].forward
         IN  IF f # Nil /\ FloatLess(h[f].score, min)
             THEN rangeWalk(h, f, i, min)
             ELSE [x |-> x, panic |-> FALSE]

\* the outer loop of the descent to min
RECURSIVE rangeDescend(_, _, _, _)
rangeDescend(h, i, x, min) ==
    IF i < 0 THEN [x |-> x, panic |-> FALSE]
    ELSE LET w == rangeWalk(h, x, i, min)
         IN  IF w.panic THEN w ELSE rangeDescend(h, i - 1, w.x, min)

\* for x != nil && skipped < offset { if x.score > max { break }; skipped++; x = next }
RECURSIVE rangeSkip(_, _, _, _, _)
rangeSkip(h, x, max, offset, skipped) ==
    IF x # Nil /\ skipped < offset
    THEN IF FloatLess(max, h[x].score) THEN x
         ELSE rangeSkip(h, h[x].level[0].forward, max, offset, skipped + 1)
    ELSE x

\* for x != nil && (count < 0 || returned < count) { ...append... }
\* `result` is the slice so far: isNil until the first append
RECURSIVE rangeCollect(_, _, _, _, _, _)
rangeCollect(h, x, max, count, returned, result) ==
    IF x # Nil /\ (count < 0 \/ returned < count)
    THEN IF FloatLess(max, h[x].score) THEN result
         ELSE rangeCollect(h, h[x].level[0].forward, max, count, returned + 1,
                           [isNil |-> FALSE,
                            items |-> Append(result.items, <<h[x].ele, h[x].score>>)])
    ELSE result

\* nilSlice as an allocated slice of length 0
madeSlice == [isNil |-> FALSE, items |-> <<>>]

\* var result []struct{...}: the nil slice
nilSlice == [isNil |-> TRUE, items |-> <<>>]

\* z.RangeByScore(min, max, offset, count)
RangeByScore(z, min, max, offset, count) ==
    LET off == IF offset < 0 THEN 0 ELSE offset
        d   == rangeDescend(z.heap, z.zsl.level - 1, z.zsl.header, min)
        x0  == z.heap[d.x].level[0].forward
        x1  == rangeSkip(z.heap, x0, max, off, 0)
    IN  IF d.panic THEN [ret |-> nilSlice, panic |-> TRUE]
        ELSE [ret |-> rangeCollect(z.heap, x1, max, count, 0, nilSlice),
              panic |-> FALSE]

---------------------------------------------------------------------------
(* The program: one sorted set and a caller that makes one call at a time *)

\* the sorted set as the operations see it
Z == [dict |-> dict, zsl |-> zsl, heap |-> heap]

NoCall == [name |-> "none"]

\* the caller holds no result and the process has not panicked
Ready == op = NoCall /\ ~panicked

Init ==
    /\ heap = NewZSet.heap
    /\ zsl = NewZSet.zsl
    /\ dict = NewZSet.dict
    /\ op = NoCall
    /\ ret = FALSE
    /\ panicked = FALSE
    /\ before = NewZSet

\* a call that may write the set returns r
Mutated(call, r) ==
    /\ heap' = r.z.heap
    /\ zsl' = r.z.zsl
    /\ dict' = r.z.dict
    /\ ret' = r.ret
    /\ panicked' = r.panic
    /\ op' = call
    /\ before' = Z

\* Answered for a query that writes sl.level
AnsweredResettingLevel(call, r) ==
    /\ ret' = r.ret
    /\ panicked' = r.panic
    /\ op' = call
    /\ before' = Z
    /\ zsl' = [zsl EXCEPT !.level = 1]
    /\ UNCHANGED <<heap, dict>>

\* a call that only reads the set returns r
Answered(call, r) ==
    /\ ret' = r.ret
    /\ panicked' = r.panic
    /\ op' = call
    /\ before' = Z
    /\ UNCHANGED <<heap, zsl, dict>>

CallAdd(ele, score, flips) ==
    /\ Ready
    /\ AddFits(Z, ele, score)
    /\ Mutated([name |-> "Add", ele |-> ele, score |-> score],
               Add(Z, ele, score, randomLevel(flips)))

CallRemove(ele) ==
    /\ Ready
    /\ Mutated([name |-> "Remove", ele |-> ele], Remove(Z, ele))

CallScore(ele) ==
    /\ Ready
    /\ Answered([name |-> "Score", ele |-> ele],
                [ret |-> Score(Z, ele), panic |-> FALSE])

CallRank(ele, reverse) ==
    /\ Ready
    /\ Answered([name |-> "Rank", ele |-> ele, reverse |-> reverse],
                Rank(Z, ele, reverse))

CallGetByRank(rank, reverse) ==
    /\ Ready
    /\ Answered([name |-> "GetByRank", rank |-> rank, reverse |-> reverse],
                GetByRank(Z, rank, reverse))

CallRangeByScore(min, max, offset, count) ==
    /\ Ready
    /\ Answered([name |-> "RangeByScore", min |-> min, max |-> max,
                 offset |-> offset, count |-> count],
                RangeByScore(Z, min, max, offset, count))

CallLen ==
    /\ Ready
    /\ Answered([name |-> "Len"], [ret |-> ZSetLen(Z), panic |-> FALSE])

\* the caller has looked at the result and is ready for its next call
Return ==
    /\ op # NoCall
    /\ ~panicked
    /\ op' = NoCall
    /\ ret' = FALSE
    /\ before' = Z
    /\ UNCHANGED <<heap, zsl, dict, panicked>>

Next ==
    \/ \E ele \in Members, score \in Scores, flips \in 0..MaxFlips :
          CallAdd(ele, score, flips)
    \/ \E ele \in Members : CallRemove(ele)
    \/ \E ele \in Members : CallScore(ele)
    \/ \E ele \in Members, reverse \in BOOLEAN : CallRank(ele, reverse)
    \/ \E rank \in Ranks, reverse \in BOOLEAN : CallGetByRank(rank, reverse)
    \/ \E min \in Scores, max \in Scores, offset \in Offsets, count \in Counts :
          CallRangeByScore(min, max, offset, count)
    \/ CallLen
    \/ Return

Spec == Init /\ [][Next]_vars

\* the same program with a caller that passes NaN for a score
NextNaN ==
    \/ \E ele \in NaNMembers, score \in NaNScores, flips \in 0..MaxFlips :
          CallAdd(ele, score, flips)
    \/ \E ele \in NaNMembers : CallRemove(ele)
    \/ \E ele \in NaNMembers : CallScore(ele)
    \/ \E ele \in NaNMembers, reverse \in BOOLEAN : CallRank(ele, reverse)
    \/ \E rank \in Ranks, reverse \in BOOLEAN : CallGetByRank(rank, reverse)
    \/ \E min \in NaNScores, max \in NaNScores, offset \in Offsets, count \in Counts :
          CallRangeByScore(min, max, offset, count)
    \/ CallLen
    \/ Return

SpecNaN == Init /\ [][NextNaN]_vars

---------------------------------------------------------------------------
(* The loops of the program, one iteration at a time.  A loop in progress is
   the record op: its function (kind), the level i, the node x it stands on
   and its locals.  The searches of insert after a delete (an update) run on
   the skiplist a Remove of the member leaves, so starting them from every
   idle state covers them. *)

\* the loops of RangeByScore over the level-0 chain, x being the loop variable
Scans == { "skip", "collect" }

\* the loop dereferences a node that is not there or a level it has not
LoopFaults(h, p) ==
    IF p.kind \in Scans THEN p.x # Nil /\ ~HasLevel(h, p.x, 0)
    ELSE ~HasLevel(h, p.x, p.i)

\* the condition of the inner loop holds: the body runs once more
LoopAdvances(h, p) ==
    /\ ~LoopFaults(h, p)
    /\ CASE p.kind \in { "insert", "delete" } ->
                /\ h[p.x].level[p.i].forward # Nil
                /\ KeyBefore(h, h[p.x].level[p.i].forward, p.score, p.ele)
         [] p.kind = "getRank" ->
                /\ h[p.x].level[p.i].forward # Nil
                /\ KeyAtMost(h, h[p.x].level[p.i].forward, p.score, p.ele)
         [] p.kind = "getElementByRank" ->
                /\ h[p.x].level[p.i].forward # Nil
                /\ U64(p.traversed + h[p.x].level[p.i].span) <= p.rank
         [] p.kind = "RangeByScore" ->
                /\ h[p.x].level[p.i].forward # Nil
                /\ FloatLess(h[h[p.x].level[p.i].forward].score, p.min)
         [] p.kind = "skip" ->
                /\ p.x # Nil /\ p.done < p.offset
                /\ ~FloatLess(p.max, h[p.x].score)
         [] p.kind = "collect" ->
                /\ p.x # Nil /\ (p.count < 0 \/ p.done < p.count)
                /\ ~FloatLess(p.max, h[p.x].score)

\* LoopAdvanced without x = x.level[i].forward and without the counters
LoopAdvancedStaysPut(h, p) == p

\* the loop after one run of its body
LoopAdvanced(h, p) ==
    CASE p.kind \in { "insert", "delete", "getRank", "RangeByScore" } ->
            [p EXCEPT !.x = h[p.x].level[p.i].forward]
      [] p.kind = "getElementByRank" ->
            [p EXCEPT !.x = h[p.x].level[p.i].forward,
                      !.traversed = U64(@ + h[p.x].level[p.i].span)]
      [] p.kind \in Scans ->
            [p EXCEPT !.x = h[p.x].level[0].forward, !.done = @ + 1]

\* the return from inside the outer loop of getRank and getElementByRank
LoopReturns(h, sl, p) ==
    CASE p.kind = "getRank" -> getRankHit(h, sl, p.x, p.score, p.ele)
      [] p.kind = "getElementByRank" -> p.traversed = p.rank
      [] OTHER -> FALSE

\* with its inner loop over, the loop is over
LoopLast(h, sl, p) == p.kind \in Scans \/ LoopReturns(h, sl, p) \/ p.i = 0

\* what follows the loop: the next loop of RangeByScore, or the return.  An
\* argument of RangeByScore enters the record with the first loop that reads it.
LoopNext(h, p) ==
    CASE p.kind = "RangeByScore" ->
            { [name |-> "loop", kind |-> "skip", i |-> 0,
               x |-> h[p.x].level[0].forward, max |-> max,
               offset |-> IF offset < 0 THEN 0 ELSE offset, done |-> 0] :
              max \in Scores, offset \in Offsets }
      [] p.kind = "skip" ->
            { [name |-> "loop", kind |-> "collect", i |-> 0, x |-> p.x,
               max |-> p.max, count |-> count, done |-> 0] : count \in Counts }
      [] OTHER -> { NoCall }

\* the search of insert (for a member not on the chain), of delete and of
\* getRank (for a member of the set, with its score from the dict)
BeginSearch(kind, score, ele) ==
    /\ Ready
    /\ IF kind = "insert" THEN ~(ele \in DOMAIN dict)
       ELSE ele \in DOMAIN dict /\ score = dict[ele]
    /\ op' = [name |-> "loop", kind |-> kind, i |-> zsl.level - 1,
              x |-> zsl.header, score |-> score, ele |-> ele]
    /\ UNCHANGED <<heap, zsl, dict, ret, panicked, before>>

\* getElementByRank past its test of rank
BeginByRank(rank) ==
    /\ Ready
    /\ ~(rank = 0 \/ rank > zsl.length)
    /\ op' = [name |-> "loop", kind |-> "getElementByRank", i |-> zsl.level - 1,
              x |-> zsl.header, rank |-> rank, traversed |-> 0]
    /\ UNCHANGED <<heap, zsl, dict, ret, panicked, before>>

\* RangeByScore: the descent to min, then the skip loop, then the collect loop
BeginRange(min) ==
    /\ Ready
    /\ op' = [name |-> "loop", kind |-> "RangeByScore", i |-> zsl.level - 1,
              x |-> zsl.header, min |-> min]
    /\ UNCHANGED <<heap, zsl, dict, ret, panicked, before>>

\* x = x.level[i].forward (and the loop's counters)
LoopForward ==
    /\ op.name = "loop"
    /\ LoopAdvances(heap, op)
    /\ op' = LoopAdvanced(heap, op)
    /\ UNCHANGED <<heap, zsl, dict, ret, panicked, before>>

\* i--
LoopDown ==
    /\ op.name = "loop"
    /\ ~LoopFaults(heap, op)
    /\ ~LoopAdvances(heap, op)
    /\ ~LoopLast(heap, zsl, op)
    /\ op' = [op EXCEPT !.i = @ - 1]
    /\ UNCHANGED <<heap, zsl, dict, ret, panicked, before>>

\* the loop is left
LoopEnd ==
    /\ op.name = "loop"
    /\ LoopFaults(heap, op) \/ (~LoopAdvances(heap, op) /\ LoopLast(heap, zsl, op))
    /\ panicked' = LoopFaults(heap, op)
    /\ op' \in IF LoopFaults(heap, op) THEN { NoCall } ELSE LoopNext(heap, op)
    /\ UNCHANGED <<heap, zsl, dict, ret, before>>

\* randomLevel: level := 1
BeginRandomLevel ==
    /\ Ready
    /\ op' = [name |-> "randomLevel", level |-> 1]
    /\ UNCHANGED <<heap, zsl, dict, ret, panicked, before>>

\* rand.Float64() < SKIPLIST_P && level < SKIPLIST_MAXLEVEL: level++
FlipBelow ==
    /\ op.name = "randomLevel"
    /\ op.level < SKIPLIST_MAXLEVEL
    /\ op' = [op EXCEPT !.level = @ + 1]
    /\ UNCHANGED <<heap, zsl, dict, ret, panicked, before>>

\* the draw is not below SKIPLIST_P, or the level is SKIPLIST_MAXLEVEL: return level
FlipEnd ==
    /\ op.name = "randomLevel"
    /\ op' = NoCall
    /\ UNCHANGED <<heap, zsl, dict, ret, panicked, before>>

\* a loop in progress takes its next step
LoopStep == LoopForward \/ LoopDown \/ LoopEnd \/ FlipBelow \/ FlipEnd

NextLoops ==
    \/ \E ele \in Members, score \in LoopScores, flips \in 0..MaxFlips :
          CallAdd(ele, score, flips)
    \/ \E ele \in Members : CallRemove(ele)
    \/ \E kind \in { "insert", "delete", "getRank" }, score \in Scores, ele \in Members :
          BeginSearch(kind, score, ele)
    \/ \E rank \in 1..Cardinality(Members) : BeginByRank(rank)
    \/ \E min \in Scores : BeginRange(min)
    \/ BeginRandomLevel
    \/ LoopForward
    \/ LoopDown
    \/ LoopEnd
    \/ FlipBelow
    \/ FlipEnd
    \/ (op.name \in { "Add", "Remove" } /\ Return)

\* a running program goes on running
SpecLoops == Init /\ [][NextLoops]_vars /\ WF_vars(LoopStep)

---------------------------------------------------------------------------
(* What the claims speak of *)

\* the level-0 chain from x on, as a sequence of addresses (at most n of them)
RECURSIVE chainFrom(_, _, _)
chainFrom(h, x, n) ==
    IF x = Nil \/ n = 0 \/ ~HasLevel(h, x, 0) THEN <<>>
    ELSE <<x>> \o chainFrom(h, h[x].level[0].forward, n - 1)

\* the member nodes of z in level-0 order; one more than the heap holds would
\* show a cycle
Chain(z) == chainFrom(z.heap, z.heap[z.zsl.header].level[0].forward,
                      Cardinality(DOMAIN z.heap) + 1)

\* the (member, score) pairs of the nodes c of the heap h, in the order of c
PairsOf(h, c) == [k \in 1..Len(c) |-> <<h[c[k]].ele, h[c[k]].score>>]

\* the (member, score) pairs on the level-0 chain, in order
ChainPairs(z) == PairsOf(z.heap, Chain(z))

\* the (member, score) pairs of the direct index
DictPairs(z) == { <<m, z.dict[m]>> : m \in DOMAIN z.dict }

\* (s1, m1) is strictly below (s2, m2) in the composite order
KeyLess(s1, m1, s2, m2) == s1 < s2 \/ (s1 = s2 /\ StrLess(m1, m2))

\* how many members of d have a key strictly below (s, m)
Below(d, s, m) == Cardinality({ k \in DOMAIN d : KeyLess(d[k], k, s, m) })

\* the call just made is Add(m, s) on a member that was there
AddOfPresent == op.name = "Add" /\ op.ele \in DOMAIN before.dict

AddIsUpdate == AddOfPresent /\ before.dict[op.ele] # op.score

AddIsSame == AddOfPresent /\ before.dict[op.ele] = op.score

\* C1: Add(m, s) returns true exactly when m was not in the set at the call;
\* it returns false when m was there, with the same score or with another.
C1_AddReturnsTrueIffAbsent ==
    op.name = "Add" => (ret = TRUE <=> ~(op.ele \in DOMAIN before.dict))

\* an Add that changed the score of a member returned false
C1_Witness == AddIsUpdate /\ ret = FALSE /\ dict[op.ele] = op.score

\* the pairs of the sequence s are the pairs of the set d, and no member is
\* in two pairs of s
PairsMatch(s, d) ==
    /\ { s[k] : k \in 1..Len(s) } = d
    /\ \A j, k \in 1..Len(s) : j # k => s[j][1] # s[k][1]

\* C2: the direct index and the level-0 chain hold the same (member, score)
\* pairs, and no member is on two nodes.
C2_DictMatchesChain == PairsMatch(ChainPairs(Z), DictPairs(Z))

\* a Remove took one of three members away
C2_Witness ==
    /\ op.name = "Remove" /\ ret = TRUE
    /\ Cardinality(DOMAIN dict) = 2
    /\ Len(Chain(Z)) = 2

\* each pair of the sequence s is below the next in the composite order
StrictlyIncreasing(s) ==
    \A k \in 1..(Len(s) - 1) : KeyLess(s[k][2], s[k][1], s[k + 1][2], s[k + 1][1])

\* C3: the level-0 chain is strictly increasing in (score, member).
C3_ChainStrictlyIncreasing == StrictlyIncreasing(ChainPairs(Z))

\* three members on the chain, two of them with the same score
C3_Witness ==
    /\ Len(Chain(Z)) = 3
    /\ ChainPairs(Z)[1][2] = ChainPairs(Z)[2][2]
    /\ ChainPairs(Z)[2][2] # ChainPairs(Z)[3][2]

\* C4: after Add(m, s2) on a member that had score s1 # s2: Score(m) is
\* (s2, true), Len() is what it was, m is on exactly one node of the chain, at
\* the place (s2, m) has in the order, and no node holds (s1, m).
C4_UpdateMovesMember ==
    AddIsUpdate =>
        /\ Score(Z, op.ele) = <<op.score, TRUE>>
        /\ ZSetLen(Z) = ZSetLen(before)
        /\ Cardinality({ k \in 1..Len(Chain(Z)) : ChainPairs(Z)[k][1] = op.ele }) = 1
        /\ \A k \in 1..Len(Chain(Z)) :
              ChainPairs(Z)[k][1] = op.ele =>
                 /\ ChainPairs(Z)[k][2] = op.score
                 /\ k = 1 + Cardinality({ j \in 1..Len(Chain(Z)) :
                          KeyLess(ChainPairs(Z)[j][2], ChainPairs(Z)[j][1],
                                  op.score, op.ele) })
        /\ \A k \in 1..Len(Chain(Z)) :
              ChainPairs(Z)[k] # <<op.ele, before.dict[op.ele]>>

\* an update moved a member from the front of a chain of three to its end
C4_Witness ==
    /\ AddIsUpdate
    /\ Len(Chain(before)) = 3 /\ ChainPairs(before)[1][1] = op.ele
    /\ Len(Chain(Z)) = 3 /\ ChainPairs(Z)[3][1] = op.ele

\* C5: Add(m, s) on a member that has score s leaves the dict, every node
\* (levels, spans, forward and backward pointers), the tail, the length and
\* the level as they were, and returns false.
C5_SameScoreAddChangesNothing ==
    AddIsSame => (heap = before.heap /\ zsl = before.zsl /\ dict = before.dict
                  /\ ret = FALSE)

\* Add with the score it has, of a member whose node has two levels
C5_Witness ==
    /\ AddIsSame
    /\ \E x \in DOMAIN heap :
          /\ x # zsl.header
          /\ heap[x].ele = op.ele
          /\ DOMAIN heap[x].level = 0..1

\* the call just made is Rank(m, reverse) on a member of the set
RankOfPresent(reverse) ==
    op.name = "Rank" /\ op.reverse = reverse /\ op.ele \in DOMAIN dict

\* the call just made is GetByRank(r, reverse) with 0 <= r < Len()
GetByRankInRange == op.name = "GetByRank" /\ 0 <= op.rank /\ op.rank < ZSetLen(Z)

\* C6: for a member m of the set, Rank(m, false) is the number of members
\* whose (score, member) key is strictly below m's, and lies in [0, Len()).
C6_RankCountsSmallerKeys ==
    RankOfPresent(FALSE) =>
        /\ ret = Below(dict, dict[op.ele], op.ele)
        /\ 0 <= ret /\ ret < ZSetLen(Z)

\* Rank(m, false) = 1 for a member that shares its score with a smaller member
C6_Witness ==
    /\ RankOfPresent(FALSE) /\ ret = 1
    /\ \E k \in DOMAIN dict : dict[k] = dict[op.ele] /\ StrLess(k, op.ele)

\* C7: for a member m of the set, Rank(m, true) = Len() - 1 - Rank(m, false);
\* the member with the greatest key has reverse rank 0 and the one with the
\* smallest key has reverse rank Len() - 1.
C7_ReverseRankReflects ==
    RankOfPresent(TRUE) =>
        /\ ret = ZSetLen(Z) - 1 - Rank(Z, op.ele, FALSE).ret
        /\ Below(dict, dict[op.ele], op.ele) = Cardinality(DOMAIN dict) - 1 => ret = 0
        /\ Below(dict, dict[op.ele], op.ele) = 0 => ret = ZSetLen(Z) - 1

\* the reverse rank of the smallest of three members
C7_Witness ==
    /\ RankOfPresent(TRUE) /\ ret = 2
    /\ Below(dict, dict[op.ele], op.ele) = 0

\* C8: for 0 <= r < Len(), GetByRank(r, reverse) returns exists = true and the
\* (member, score) at place r of the ascending (score, member) order, or of
\* the descending order when reverse.
C8_GetByRankReturnsPlace ==
    GetByRankInRange =>
        /\ ret[3] = TRUE
        /\ ret[1] \in DOMAIN dict
        /\ ret[2] = dict[ret[1]]
        /\ Below(dict, ret[2], ret[1])
              = (IF op.reverse THEN ZSetLen(Z) - 1 - op.rank ELSE op.rank)

\* GetByRank(0, true) on three members, the last two with the same score
C8_Witness ==
    /\ GetByRankInRange /\ op.reverse /\ op.rank = 0
    /\ Cardinality(DOMAIN dict) = 3
    /\ \E k \in DOMAIN dict : k # ret[1] /\ dict[k] = ret[2]

\* C9: for a member m of the set, GetByRank(Rank(m, false), false) returns
\* (m, s, true), s being the score Score(m) reports.
C9_GetByRankInvertsRank ==
    RankOfPresent(FALSE) =>
        GetByRank(Z, ret, FALSE).ret = <<op.ele, Score(Z, op.ele)[1], TRUE>>

\* Rank(m, false) of the last of three members
C9_Witness == RankOfPresent(FALSE) /\ ret = 2 /\ ZSetLen(Z) = 3

\* the members of d in ascending (score, member) order, as (member, score)
Ascending(d) ==
    [k \in 1..Cardinality(DOMAIN d) |->
        LET m == CHOOSE e \in DOMAIN d : Below(d, d[e], e) = k - 1
        IN  <<m, d[m]>>]

ScoreWithin(p, min, max) == min <= p[2] /\ p[2] <= max

\* s without its first n elements
Drop(s, n) == IF n >= Len(s) THEN <<>> ELSE SubSeq(s, n + 1, Len(s))

\* the first n elements of s (all of s when n < 0)
Take(s, n) == IF n < 0 \/ n >= Len(s) THEN s ELSE SubSeq(s, 1, n)

\* the members with min <= score <= max in ascending order, without the first
\* max(offset, 0) of them, cut to count
RangeReference(d, min, max, offset, count) ==
    Take(Drop(SelectSeq(Ascending(d), LAMBDA p : ScoreWithin(p, min, max)),
              IF offset < 0 THEN 0 ELSE offset),
         count)

\* C10: RangeByScore(min, max, offset, count) returns the members with
\* min <= score <= max in ascending (score, member) order, without the first
\* max(offset, 0) of them, cut to the first count (all when count < 0).
C10_RangeByScoreMatchesReference ==
    op.name = "RangeByScore" =>
        ret.items = RangeReference(dict, op.min, op.max, op.offset, op.count)

\* one member above max, two members tied at min = max, the first of the two skipped
C10_Witness ==
    /\ op.name = "RangeByScore" /\ op.offset = 1 /\ op.count = 2
    /\ op.min = op.max
    /\ Cardinality({ k \in DOMAIN dict : dict[k] = op.min }) = 2
    /\ Cardinality({ k \in DOMAIN dict : dict[k] > op.max }) = 1
    /\ Len(ret.items) = 1

\* C11 as claimed: RangeByScore never returns a null sequence.
C11_RangeNeverNull == op.name = "RangeByScore" => ~ret.isNil

\* C11: RangeByScore returns the nil slice exactly when it selects no member
\* (an empty set, a range that matches nobody, an offset past the range, a
\* count of 0), and a slice that is not nil and holds the selection otherwise.
C11_RangeNilIffNothingSelected ==
    op.name = "RangeByScore" =>
        /\ ret.isNil <=> RangeReference(dict, op.min, op.max, op.offset, op.count) = <<>>
        /\ ret.isNil => ret.items = <<>>

\* a range that matches none of two members returned the nil slice
C11_Witness ==
    /\ op.name = "RangeByScore" /\ ret.isNil
    /\ op.min <= op.max /\ op.offset = 0 /\ op.count = -1
    /\ Cardinality(DOMAIN dict) = 2

\* the set is as it was when the call was made
SetUntouched == heap = before.heap /\ zsl = before.zsl /\ dict = before.dict

\* the call just made names a member that was not in the set
CallOnAbsent(name) == op.name = name /\ ~(op.ele \in DOMAIN before.dict)

\* C12: for a member m that is not in the set, Score(m) returns (0, false),
\* Rank(m, reverse) returns -1 for both values of reverse and Remove(m)
\* returns false; none of them panics or changes the dict, the skiplist or
\* Len().
C12_AbsentMemberSentinels ==
    /\ CallOnAbsent("Score") => ret = <<0, FALSE>> /\ ~panicked /\ SetUntouched
    /\ CallOnAbsent("Rank") => ret = -1 /\ ~panicked /\ SetUntouched
    /\ CallOnAbsent("Remove") => ret = FALSE /\ ~panicked /\ SetUntouched

\* Remove of a member that is not among the two of the set
C12_Witness == CallOnAbsent("Remove") /\ Cardinality(DOMAIN dict) = 2

\* the call just made is GetByRank with a rank outside [0, Len())
GetByRankOutOfRange ==
    op.name = "GetByRank" /\ (op.rank < 0 \/ op.rank >= ZSetLen(before))

\* C13: GetByRank(rank, reverse) with rank < 0 or rank >= Len() returns
\* ("", 0, false) for both values of reverse and leaves the set unchanged.
C13_GetByRankOutOfRange ==
    GetByRankOutOfRange => ret = << <<>>, 0, FALSE >> /\ ~panicked /\ SetUntouched

\* GetByRank(Len(), true) on a set of two
C13_Witness ==
    /\ GetByRankOutOfRange /\ op.reverse
    /\ op.rank = ZSetLen(Z) /\ ZSetLen(Z) = 2

\* the call just made is Remove(m) on a member of the set
RemoveOfPresent == op.name = "Remove" /\ op.ele \in DOMAIN before.dict

\* the pairs of s whose member is not m, in the order of s
WithoutMember(s, m) == SelectSeq(s, LAMBDA p : p[1] # m)

\* C14: Remove(m) on a member of the set returns true; afterwards m is in
\* neither the dict nor the level-0 chain, Len() is one less, and every other
\* member has the score and the place relative to the others it had.
C14_RemoveTakesOneMember ==
    RemoveOfPresent =>
        /\ ret = TRUE
        /\ ~(op.ele \in DOMAIN dict)
        /\ \A k \in 1..Len(Chain(Z)) : ChainPairs(Z)[k][1] # op.ele
        /\ ZSetLen(Z) = ZSetLen(before) - 1
        /\ dict = [k \in DOMAIN before.dict \ {op.ele} |-> before.dict[k]]
        /\ ChainPairs(Z) = WithoutMember(ChainPairs(before), op.ele)

\* Remove of the middle one of three members
C14_Witness ==
    /\ RemoveOfPresent
    /\ Len(Chain(before)) = 3 /\ ChainPairs(before)[2][1] = op.ele
    /\ Len(Chain(Z)) = 2

\* the levels randomLevel returns within the bound on the flips
Levels == { randomLevel(flips) : flips \in 0..MaxFlips }

\* z after Add(ele, score) and then Remove(ele)
RemoveAfterAdd(z, ele, score, level) == Remove(Add(z, ele, score, level).z, ele)

\* a and b have the same members and the same Len()
SameMembers(a, b) == DOMAIN a.dict = DOMAIN b.dict /\ ZSetLen(a) = ZSetLen(b)

\* Add(m, s) and then Remove(m), made from the set as it stands, restore the
\* members and Len(), for every m of M
RoundTripRestores(M) ==
    \A ele \in M, score \in Scores, level \in Levels :
        AddFits(Z, ele, score) =>
            SameMembers(RemoveAfterAdd(Z, ele, score, level).z, Z)

\* C15 as claimed: from any state and for any member m and score s, Add(m, s)
\* followed by Remove(m) restores Len() and the set of members.
C15_RoundTripAnyMember == op = NoCall => RoundTripRestores(Members)

\* C15: from any state and for any score s and any member m that is not in the
\* set, Add(m, s) followed by Remove(m) restores Len() and the set of members.
C15_RoundTripAbsentMember == op = NoCall => RoundTripRestores(Members \ DOMAIN dict)

\* two members in the set; the third is added on two levels and removed again
C15_Witness ==
    /\ op = NoCall /\ Cardinality(DOMAIN dict) = 2
    /\ \E ele \in Members \ DOMAIN dict :
          /\ Add(Z, ele, 1, 2).ret = TRUE
          /\ ZSetLen(Add(Z, ele, 1, 2).z) = 3
          /\ RemoveAfterAdd(Z, ele, 1, 2).ret = TRUE
          /\ ZSetLen(RemoveAfterAdd(Z, ele, 1, 2).z) = 2

\* the outcome of the second of two calls Add(ele, score)
SecondAdd(z, ele, score, l1, l2) == Add(Add(z, ele, score, l1).z, ele, score, l2)

\* two calls Add(m, s) in a row, made from the set as it stands, return true
\* and then false and Len() grows by one, for every m of M
AddTwiceGrowsByOne(M) ==
    \A ele \in M, score \in Scores, l1 \in Levels, l2 \in Levels :
        AddFits(Z, ele, score) =>
            /\ Add(Z, ele, score, l1).ret = TRUE
            /\ SecondAdd(Z, ele, score, l1, l2).ret = FALSE
            /\ ZSetLen(SecondAdd(Z, ele, score, l1, l2).z) = ZSetLen(Z) + 1

\* C16 as claimed: from any state and for any member m and score s, Add(m, s)
\* twice in a row returns true, then false, and Len() grows by exactly 1.
C16_AddTwiceAnyMember == op = NoCall => AddTwiceGrowsByOne(Members)

\* C16: from any state and for any score s and any member m that is not in the
\* set, Add(m, s) twice in a row returns true, then false, and Len() grows by
\* exactly 1 over the two calls.
C16_AddTwiceAbsentMember == op = NoCall => AddTwiceGrowsByOne(Members \ DOMAIN dict)

\* two members in the set; the third is added twice
C16_Witness ==
    /\ op = NoCall /\ Cardinality(DOMAIN dict) = 2
    /\ \E ele \in Members \ DOMAIN dict :
          /\ Add(Z, ele, 0, 2).ret = TRUE
          /\ SecondAdd(Z, ele, 0, 2, 1).ret = FALSE
          /\ ZSetLen(SecondAdd(Z, ele, 0, 2, 1).z) = 3

\* C17: Len() is the number of nodes on the level-0 chain and the number of
\* entries of the dict; a call leaves it, or adds 1 to it, which only an Add
\* of an absent member does, or takes 1 from it, which only a Remove of a
\* member of the set does.
C17_LenCountsMembers ==
    /\ ZSetLen(Z) = Len(Chain(Z))
    /\ ZSetLen(Z) = Cardinality(DOMAIN dict)
    /\ ZSetLen(Z) - ZSetLen(before) \in { -1, 0, 1 }
    /\ ZSetLen(Z) = ZSetLen(before) + 1 =>
          op.name = "Add" /\ ~(op.ele \in DOMAIN before.dict)
    /\ ZSetLen(Z) = ZSetLen(before) - 1 =>
          op.name = "Remove" /\ op.ele \in DOMAIN before.dict
    /\ op.name = "Add" /\ ~(op.ele \in DOMAIN before.dict) =>
          ZSetLen(Z) = ZSetLen(before) + 1
    /\ RemoveOfPresent => ZSetLen(Z) = ZSetLen(before) - 1

\* an update of one of three members: Len() stays 3
C17_Witness == AddIsUpdate /\ ZSetLen(Z) = 3 /\ ZSetLen(before) = 3

\* the place of node x on the level-0 chain c, from 1; 0 for the header and
\* -1 for a node that is not on the chain
Position(c, header, x) ==
    IF x = header THEN 0
    ELSE IF \E k \in 1..Len(c) : c[k] = x
         THEN CHOOSE k \in 1..Len(c) : c[k] = x
         ELSE -1

\* the nodes reached from x by at most n links of level i, each with the sum
\* of the spans of the links followed to it, acc being the sum at x, and with
\* the span of the link that leads to it
RECURSIVE spanSums(_, _, _, _, _)
spanSums(h, x, i, acc, n) ==
    IF n = 0 \/ ~HasLevel(h, x, i) \/ h[x].level[i].forward = Nil THEN <<>>
    ELSE << <<h[x].level[i].forward, acc + h[x].level[i].span, h[x].level[i].span>> >>
         \o spanSums(h, h[x].level[i].forward, i, acc + h[x].level[i].span, n - 1)

\* <<node, sum of the spans from the header, span of the last link>> along
\* the level-i chain of z
LevelSums(z, i) ==
    spanSums(z.heap, z.zsl.header, i, 0, Cardinality(DOMAIN z.heap) + 1)

\* sums, the level-i chain of z with its sums, agrees with the level-0 chain c
SumsArePlaces(z, c, sums) ==
    \A k \in 1..Len(sums) :
        /\ sums[k][2] = Position(c, z.zsl.header, sums[k][1])
        /\ sums[k][3] >= 1
        /\ sums[k][3] <= ZSetLen(z)

\* the spans of z are consistent with its level-0 chain c
SpansConsistent(z, c) ==
    /\ \A i \in 0..(z.zsl.level - 1) : SumsArePlaces(z, c, LevelSums(z, i))
    /\ Len(LevelSums(z, 0)) = Len(c)

\* C18: for every level i below sl.level and every node n on the level-i
\* chain, the spans of the level-i links from the header to n add up to n's
\* place, from 1, on the level-0 chain; every link followed has a span of at
\* least 1 and none has wrapped around; the level-0 chain is walked whole.
C18_SpanConsistency == SpansConsistent(Z, Chain(Z))

\* a Remove has left two levels, the header's level-1 link passing over the
\* first node
C18_Witness ==
    /\ op.name = "Remove" /\ ret = TRUE
    /\ zsl.level = 2 /\ ZSetLen(Z) = 2
    /\ heap[zsl.header].level[1].forward # Nil
    /\ heap[zsl.header].level[1].span = 2

\* the highest level at which z's header has a forward pointer, counted from 1
\* as sl.level is; 0 when it has none
HighestForward(z) ==
    LET used == { i \in DOMAIN z.heap[z.zsl.header].level :
                      z.heap[z.zsl.header].level[i].forward # Nil }
    IN  IF used = {} THEN 0
        ELSE 1 + CHOOSE i \in used : \A j \in used : j <= i

\* C19 as claimed: in every state, the freshly constructed and the emptied set
\* included, sl.level is the highest level at which the header has a forward
\* pointer.
C19_LevelIsHighestForward == zsl.level = HighestForward(Z)

\* C19: in every state sl.level is the highest level at which the header has
\* a forward pointer, and 1 when the header has none, which is the freshly
\* constructed and the emptied set.
C19_LevelIsHighestForwardOrOne ==
    /\ zsl.level = Max2(1, HighestForward(Z))
    /\ HighestForward(Z) = 0 <=> ZSetLen(Z) = 0

\* the Remove of the last member, which stood on two levels
C19_Witness ==
    /\ op.name = "Remove" /\ ret = TRUE
    /\ before.zsl.level = 2 /\ zsl.level = 1
    /\ HighestForward(Z) = 0

\* the nodes met following backward from x, at most n of them
RECURSIVE backFrom(_, _, _)
backFrom(h, x, n) ==
    IF x = Nil \/ n = 0 \/ ~(x \in DOMAIN h) THEN <<>>
    ELSE <<x>> \o backFrom(h, h[x].backward, n - 1)

\* s in reverse order
Reversed(s) == [k \in 1..Len(s) |-> s[Len(s) + 1 - k]]

\* the backward pointers and the tail of z agree with its level-0 chain c
BackwardFollowsChain(z, c) ==
    /\ \A k \in 1..Len(c) :
          /\ z.heap[c[k]].backward = IF k = 1 THEN Nil ELSE c[k - 1]
          /\ z.heap[c[k]].backward # z.zsl.header
    /\ z.zsl.tail = IF c = <<>> THEN Nil ELSE c[Len(c)]
    /\ backFrom(z.heap, z.zsl.tail, Cardinality(DOMAIN z.heap) + 1) = Reversed(c)

\* C20: each node's backward pointer is the node before it on the level-0
\* chain, none for the first node and never the header; tail is the last node
\* of the chain, none when the set is empty; following backward from tail
\* visits the chain in reverse order.
C20_BackwardAndTail == BackwardFollowsChain(Z, Chain(Z))

\* an Add has put its node between two others
C20_Witness ==
    /\ op.name = "Add" /\ ret = TRUE
    /\ Len(Chain(Z)) = 3
    /\ heap[Chain(Z)[2]].ele = op.ele

\* the members of the nodes on the level-0 chain c of z are all different
MembersUnique(z, c) ==
    \A j \in 1..Len(c), k \in 1..Len(c) : z.heap[c[j]].ele = z.heap[c[k]].ele => j = k

\* the dict of z and its level-0 chain c hold the same (member, score) pairs
DictAgreesWithChain(z, c) ==
    /\ \A k \in 1..Len(c) :
          /\ z.heap[c[k]].ele \in DOMAIN z.dict
          /\ z.dict[z.heap[c[k]].ele] = z.heap[c[k]].score
    /\ \A m \in DOMAIN z.dict : \E k \in 1..Len(c) : z.heap[c[k]].ele = m
    /\ ZSetLen(z) = Cardinality(DOMAIN z.dict)

\* no member of z is stored with NaN, in the dict or on the chain c
NoNaNStored(z, c) ==
    /\ \A m \in DOMAIN z.dict : z.dict[m] # NaN
    /\ \A k \in 1..Len(c) : z.heap[c[k]].score # NaN

\* C21 as claimed: Add rejects a NaN score, so whatever the callers pass, NaN
\* included, no member is stored with a NaN score, no member is on the chain
\* twice and the dict agrees with the chain.
C21_NaNRejected ==
    /\ NoNaNStored(Z, Chain(Z))
    /\ MembersUnique(Z, Chain(Z))
    /\ DictAgreesWithChain(Z, Chain(Z))

\* C21: what the code does with a second Add(m, NaN): the member has two nodes
\* on the chain and one entry in the dict
C21_Witness ==
    /\ op.name = "Add" /\ op.score = NaN /\ ~panicked
    /\ op.ele \in DOMAIN before.dict /\ before.dict[op.ele] = NaN
    /\ ret = FALSE
    /\ ZSetLen(Z) = 2 /\ Len(Chain(Z)) = 2
    /\ heap[Chain(Z)[1]].ele = op.ele /\ heap[Chain(Z)[2]].ele = op.ele
    /\ DOMAIN dict = { op.ele }

\* the calls that ask and do not change the set
QueryNames == { "Score", "Rank", "GetByRank", "RangeByScore", "Len" }

\* what the query of call returns when it is made on z
Repeated(z, call) ==
    CASE call.name = "Score" -> Score(z, call.ele)
      [] call.name = "Rank" -> Rank(z, call.ele, call.reverse).ret
      [] call.name = "GetByRank" -> GetByRank(z, call.rank, call.reverse).ret
      [] call.name = "RangeByScore" ->
            RangeByScore(z, call.min, call.max, call.offset, call.count).ret
      [] call.name = "Len" -> ZSetLen(z)

UpdateHasLevels(z, d) ==
    /\ ~d.panic
    /\ \A i \in 0..(z.zsl.level - 1) : HasLevel(z.heap, d.update[i], i)

\* the searches of insert and of delete, made on z for any key, record
\* predecessors that have their levels
SearchesAreSound(z) ==
    \A ele \in Members, score \in Scores :
        /\ UpdateHasLevels(z, insertDescend(z.heap, z.zsl, score, ele,
                                            z.zsl.level - 1, z.zsl.header,
                                            [i \in 0..(SKIPLIST_MAXLEVEL - 1) |-> Nil],
                                            [i \in 0..(SKIPLIST_MAXLEVEL - 1) |-> 0]))
        /\ UpdateHasLevels(z, deleteDescend(z.heap, z.zsl, score, ele,
                                            z.zsl.level - 1, z.zsl.header,
                                            [i \in 0..(SKIPLIST_MAXLEVEL - 1) |-> Nil]))

\* C23: no call of Add, Remove, Score, Rank, GetByRank, RangeByScore or Len
\* ends in a nil dereference or an index out of range, and in insert and
\* delete every update[i] below sl.level is a node that has a level i.
C23_NoOperationFaults ==
    /\ ~panicked
    /\ op = NoCall => SearchesAreSound(Z)

\* an update has deleted and inserted again among three members on two levels
C23_Witness ==
    /\ AddIsUpdate /\ ~panicked
    /\ zsl.level = 2 /\ before.zsl.level = 2
    /\ Len(Chain(Z)) = 3

\* a loop of the program is in progress
InLoop == op.name \in { "loop", "randomLevel" }

\* randomLevel's level, which is what it returns when it is left
LevelInRange ==
    op.name = "randomLevel" => op.level \in 1..SKIPLIST_MAXLEVEL

\* C24: every traversal loop of insert, delete, getRank, getElementByRank and
\* RangeByScore, begun in any state of the set, ends; randomLevel ends, after
\* at most SKIPLIST_MAXLEVEL - 1 draws below SKIPLIST_P, with a level in 1..32.
C24_OperationsTerminate == []LevelInRange /\ (InLoop ~> ~InLoop)

\* the collect loop of RangeByScore has walked a chain of three to its end
C24_Witness ==
    /\ op.name = "loop" /\ op.kind = "collect"
    /\ op.x = Nil /\ op.done = 3
    /\ zsl.level = 2

\* del, the outcome of the delete a call made, found its node
DeleteHit(del) == del.found /\ ~del.panic

\* no node of the skiplist (h, sl) holds ele
NoNodeOf(h, sl, ele) ==
    \A x \in DOMAIN collect(h, sl) : x # sl.header => h[x].ele # ele

\* the skiplist insert is called on, del being what Add's delete left, holds
\* no node of ele
InsertIsFresh(del, ele) == NoNodeOf(del.heap, del.sl, ele)

\* C25: when Add, on its update path, or Remove calls skiplist.delete, the
\* node of the member with the score of the dict is on the chain and delete
\* returns true; and when Add calls skiplist.insert no node of the member is
\* on the chain.
C25_DeleteFindsInsertIsFresh ==
    /\ AddIsUpdate \/ RemoveOfPresent =>
          DeleteHit(delete(before.heap, before.zsl, before.dict[op.ele], op.ele))
    /\ op.name = "Add" /\ ~AddIsSame =>
          InsertIsFresh(AddDelete(before, op.ele), op.ele)

\* an update of the first of two members that moves it behind the other
C25_Witness ==
    /\ AddIsUpdate
    /\ Len(Chain(before)) = 2 /\ Len(Chain(Z)) = 2
    /\ before.heap[Chain(before)[1]].ele = op.ele
    /\ heap[Chain(Z)[2]].ele = op.ele

\* the set a run reaches that adds pairs[k], pairs[k + 1], ... to z in this
\* order, every node drawing level 1
RECURSIVE AddedInOrder(_, _, _)
AddedInOrder(z, pairs, k) ==
    IF k > Len(pairs) THEN z
    ELSE AddedInOrder(Add(z, pairs[k][1], pairs[k][2], 1).z, pairs, k + 1)

\* the set of the run that adds the pairs of d to a new set in ascending
\* order, all on one level
PlainRun(d) == AddedInOrder(NewZSet, Ascending(d), 1)

\* every query, with any argument, returns on a what it returns on b
AnswersAlike(a, b) ==
    /\ \A ele \in Members : Score(a, ele) = Score(b, ele)
    /\ \A ele \in Members, reverse \in BOOLEAN :
          Rank(a, ele, reverse) = Rank(b, ele, reverse)
    /\ \A rank \in Ranks, reverse \in BOOLEAN :
          GetByRank(a, rank, reverse) = GetByRank(b, rank, reverse)
    /\ \A min \in Scores, max \in Scores, offset \in Offsets, count \in Counts :
          RangeByScore(a, min, max, offset, count)
              = RangeByScore(b, min, max, offset, count)
    /\ ZSetLen(a) = ZSetLen(b)

\* C26: whatever the history of Add and Remove and whatever levels the nodes
\* drew, every Score, Rank, GetByRank, RangeByScore and Len, made on the set
\* as it stands, returns what it returns in the run that adds the same
\* (member, score) pairs in ascending order on one level: two runs that end
\* with the same pairs answer alike.
C26_AnswersDependOnPairsOnly == op = NoCall => AnswersAlike(Z, PlainRun(dict))

\* three members on two levels, whose plain run has one level; GetByRank
\* finds the last of them
C26_Witness ==
    /\ op = NoCall
    /\ ZSetLen(Z) = 3 /\ zsl.level = 2
    /\ PlainRun(dict).zsl.level = 1
    /\ PlainRun(dict).heap # heap
    /\ GetByRank(Z, 2, FALSE).ret[3] = TRUE

\* the height of node x: len(x.level)
Height(h, x) == Cardinality(DOMAIN h[x].level)

\* the nodes of sums, a level chain with its sums
NodesOf(sums) == [k \in 1..Len(sums) |-> sums[k][1]]

\* the nodes of the level-i chain of z, in the order of the chain
LevelChain(z, i) == NodesOf(LevelSums(z, i))

\* the nodes of the level-0 chain c that are higher than i, in the order of c
Taller(z, c, i) == SelectSeq(c, LAMBDA x : Height(z.heap, x) > i)

\* the greatest height of a node of c, 1 when c is empty
MaxHeight(z, c) ==
    IF c = <<>> THEN 1
    ELSE CHOOSE n \in { Height(z.heap, c[k]) : k \in 1..Len(c) } :
            \A k \in 1..Len(c) : Height(z.heap, c[k]) <= n

\* the levels of z are those of the nodes of its level-0 chain c
LevelsFollowHeights(z, c) ==
    /\ \A i \in 0..(z.zsl.level - 1) : LevelChain(z, i) = Taller(z, c, i)
    /\ \A k \in 1..Len(c) : Height(z.heap, c[k]) \in 1..SKIPLIST_MAXLEVEL
    /\ z.zsl.level = MaxHeight(z, c)
    /\ \A i \in z.zsl.level..(SKIPLIST_MAXLEVEL - 1) :
          z.heap[z.zsl.header].level[i].forward = Nil

\* C27: for each level i below sl.level the level-i chain from the header
\* holds exactly the nodes higher than i, in level-0 order; every node's
\* height is in 1..SKIPLIST_MAXLEVEL; sl.level is the greatest height (1 when
\* the set is empty); the header has no forward pointer at sl.level or above.
C27_LevelsFollowHeights == LevelsFollowHeights(Z, Chain(Z))

\* three members, the level-1 chain passing over the one in the middle
C27_Witness ==
    /\ Len(Chain(Z)) = 3
    /\ Height(heap, Chain(Z)[1]) = 2
    /\ Height(heap, Chain(Z)[2]) = 1
    /\ Height(heap, Chain(Z)[3]) = 2
    /\ op.name = "Add" /\ heap[Chain(Z)[2]].ele = op.ele

=============================================================================
